---- MODULE Spec2Model ----
(***************************************************************************)
(* Job Lifecycle Manager of the robotics training backend: the jobs        *)
(* router (submit_job, get_user_jobs, get_all_jobs, get_job), the          *)
(* SupabaseService store client, the SQSService queue client and the       *)
(* Clerk credential resolution the router depends on.                      *)
(***************************************************************************)
EXTENDS Integers, Sequences, FiniteSets, TLC

\* ------------------------------------------------------------------ bounds
MaxJobs == 2        \* rows the jobs table may hold
MaxUpdates == 2     \* update_job calls made from outside submit_job
MaxFetchJobs == 1   \* rows the jobs table may hold where fetches follow updates

\* ------------------------------------------------------------ value domains
None == "None"      \* Python None in an Optional[str] field
NoId == 0           \* the empty job id
NoUser == ""        \* no resolved principal / no owner filter

Users == {"U1", "U2"}

\* app/models/job.py JobStatus
JobStatus == {"pending", "training", "completed", "failed"}

\* app/models/job.py JobCreate: the request bodies the callers submit
JobCreate ==
  { [name |-> "grasp-v1", model_type |-> "policy_network",
     dataset_path |-> None, hyperparameters |-> "{}"] }

\* app/models/job.py JobUpdate: every field Optional, default None
NoUpdate ==
  [status |-> None, modal_call_id |-> None, error_message |-> None,
   training_logs |-> None]
\* the updates the execution backend or an operator sends
JobUpdate ==
  { [NoUpdate EXCEPT !.training_logs = "log"],
    [NoUpdate EXCEPT !.status = "training", !.modal_call_id = "bk-123"],
    [NoUpdate EXCEPT !.status = "completed"],
    [NoUpdate EXCEPT !.status = "failed", !.error_message = "boom"],
    [NoUpdate EXCEPT !.status = "pending"],
    [NoUpdate EXCEPT !.error_message = "boom", !.training_logs = "log"] }

\* the update submit_job issues when the queue send fails
CompensatingUpdate ==
  [status |-> "failed", modal_call_id |-> None,
   error_message |-> "Failed to queue job", training_logs |-> None]

\* Bearer credentials a caller may present: absent, or a token described by
\* what ClerkAuth finds in it
NoCredentials == [present |-> FALSE, kid |-> FALSE, signed |-> FALSE,
                  expired |-> FALSE, sub |-> NoUser]
Tokens ==
  { [present |-> TRUE, kid |-> FALSE, signed |-> TRUE, expired |-> FALSE, sub |-> "U1"],
    [present |-> TRUE, kid |-> TRUE, signed |-> FALSE, expired |-> FALSE, sub |-> "U1"],
    [present |-> TRUE, kid |-> TRUE, signed |-> TRUE, expired |-> TRUE, sub |-> "U2"],
    [present |-> TRUE, kid |-> TRUE, signed |-> TRUE, expired |-> FALSE, sub |-> NoUser],
    [present |-> TRUE, kid |-> TRUE, signed |-> TRUE, expired |-> FALSE, sub |-> "U1"],
    [present |-> TRUE, kid |-> TRUE, signed |-> TRUE, expired |-> FALSE, sub |-> "U2"] }
Credentials == Tokens \cup {NoCredentials}

\* outcomes of one remote call to the Job Store / the Work Queue
StoreOutcomes == {"ok", "error"}
InsertOutcomes == {"ok", "error", "no_row"}
SendOutcomes == {"ok", "client_error", "error"}

\* ------------------------------------------------------------------- state
VARIABLES
  jobs,           \* the jobs table: sequence of rows in insertion order
  queue,          \* messages placed on the SQS queue
  is_configured,  \* SQSService.is_configured
  clock,          \* the store's clock: created_at of the newest row
  updates,        \* number of update_job calls made from outside submit_job
  req,            \* the submit_job call in flight, or just completed
  resp            \* the outcome of the read / update_job call just completed

vars == <<jobs, queue, is_configured, clock, updates, req, resp>>


\* ------------------------------------------------- app/services/clerk_auth.py
Ok(v) == [code |-> 0, value |-> v]
Err(c) == [code |-> c, value |-> NoUser]

\* ClerkAuth.get_signing_key: 401 without a usable kid, 500 when the JWKS
\* cannot be fetched
get_signing_key(token, jwks_ok) ==
  IF ~token.kid THEN Err(401)
  ELSE IF ~jwks_ok THEN Err(500)
  ELSE Ok(NoUser)

\* ClerkAuth.verify_token: signature and expiry, HTTPExceptions re-raised
verify_token(token, jwks_ok) ==
  LET key == get_signing_key(token, jwks_ok)
  IN IF key.code # 0 THEN key
     ELSE IF ~token.signed THEN Err(401)
     ELSE IF token.expired THEN Err(401)
     ELSE Ok(token.sub)

\* ClerkAuth.get_user_id: the sub claim, 401 when it is missing
get_user_id(token, jwks_ok) ==
  LET payload == verify_token(token, jwks_ok)
  IN IF payload.code # 0 THEN payload
     ELSE IF payload.value = NoUser THEN Err(401)
     ELSE Ok(payload.value)

\* ------------------------------------------------ app/dependencies/auth.py
\* variant of get_current_user_id: tolerant like get_optional_user_id, a
\* failed resolution yields no principal instead of raising
get_current_user_id_tolerant(cred, jwks_ok, nac) ==
  IF ~cred.present THEN Ok(NoUser)
  ELSE LET r == get_user_id(cred, jwks_ok)
       IN IF r.code # 0 THEN Ok(NoUser) ELSE r

\* get_current_user_id: HTTPBearer() rejects a request without credentials
\* (status code nac), every failure of get_user_id becomes 401
get_current_user_id(cred, jwks_ok, nac) ==
  IF ~cred.present THEN Err(nac)
  ELSE LET r == get_user_id(cred, jwks_ok)
       IN IF r.code # 0 THEN Err(401) ELSE r

\* the status code HTTPBearer answers a request without credentials with
NotAuthenticatedCodes == {403}

\* --------------------------------------------- app/services/supabase_client.py
\* JobResponse(**row): the response model keeps these fields of a row
JobResponse(row) ==
  [id |-> row.id, name |-> row.name, status |-> row.status,
   created_at |-> row.created_at, updated_at |-> row.updated_at,
   modal_call_id |-> row.modal_call_id, error_message |-> row.error_message]

\* variant of NewRow: the row is inserted as already training
NewRow_training(job, user_id, id, now) ==
  [id |-> id, user_id |-> user_id, name |-> job.name, status |-> "training",
   model_type |-> job.model_type, dataset_path |-> job.dataset_path,
   hyperparameters |-> job.hyperparameters,
   modal_call_id |-> None, error_message |-> None, training_logs |-> None,
   created_at |-> now, updated_at |-> now]

\* the row the jobs table holds after create_job's insert
NewRow(job, user_id, id, now) ==
  [id |-> id, user_id |-> user_id, name |-> job.name, status |-> "pending",
   model_type |-> job.model_type, dataset_path |-> job.dataset_path,
   hyperparameters |-> job.hyperparameters,
   modal_call_id |-> None, error_message |-> None, training_logs |-> None,
   created_at |-> now, updated_at |-> now]

\* the id the store gives the next row
NextId(tbl) == Len(tbl) + 1

\* variant of Matches: the owner filter is never applied
Matches_any_owner(row, job_id, user_id) == row.id = job_id

\* .eq("id", job_id) and, if user_id is truthy, .eq("user_id", user_id)
Matches(row, job_id, user_id) ==
  /\ row.id = job_id
  /\ (user_id # NoUser => row.user_id = user_id)

Filter(tbl, job_id, user_id) ==
  LET Test(row) == Matches(row, job_id, user_id) IN SelectSeq(tbl, Test)

\* variant of FilterUser: the listing is not restricted to the owner
FilterUser_all(tbl, user_id) == tbl

\* .eq("user_id", user_id)
FilterUser(tbl, user_id) ==
  LET Test(row) == row.user_id = user_id IN SelectSeq(tbl, Test)

\* .order("created_at", desc=True)
RECURSIVE InsertDesc(_, _)
InsertDesc(row, sorted) ==
  IF sorted = <<>> THEN <<row>>
  ELSE IF row.created_at >= Head(sorted).created_at THEN <<row>> \o sorted
  ELSE <<Head(sorted)>> \o InsertDesc(row, Tail(sorted))

\* variant of OrderDesc: no order is requested, rows come in insertion order
OrderDesc_unordered(rows) == rows

RECURSIVE OrderDesc(_)
OrderDesc(rows) ==
  IF rows = <<>> THEN <<>> ELSE InsertDesc(Head(rows), OrderDesc(Tail(rows)))

Responses(rows) == [i \in DOMAIN rows |-> JobResponse(rows[i])]

\* update_data = {k: v for k, v in update.dict().items() if v is not None}
UpdateFields == {"status", "modal_call_id", "error_message", "training_logs"}
update_data(update) == {k \in UpdateFields : update[k] # None}

\* variant of Patch: the update replaces the four fields, None included
Patch_replace(row, update) ==
  [row EXCEPT !.status = update.status,
              !.modal_call_id = update.modal_call_id,
              !.error_message = update.error_message,
              !.training_logs = update.training_logs]

\* variant of Patch: the payload also carries a null user_id
Patch_owner(row, update) ==
  LET d == update_data(update)
  IN [row EXCEPT
        !.user_id = NoUser,
        !.status = IF "status" \in d THEN update.status ELSE @,
        !.modal_call_id = IF "modal_call_id" \in d THEN update.modal_call_id ELSE @,
        !.error_message = IF "error_message" \in d THEN update.error_message ELSE @,
        !.training_logs = IF "training_logs" \in d THEN update.training_logs ELSE @]

\* the row after .update(update_data)
Patch(row, update) ==
  LET d == update_data(update)
  IN [row EXCEPT
        !.status = IF "status" \in d THEN update.status ELSE @,
        !.modal_call_id = IF "modal_call_id" \in d THEN update.modal_call_id ELSE @,
        !.error_message = IF "error_message" \in d THEN update.error_message ELSE @,
        !.training_logs = IF "training_logs" \in d THEN update.training_logs ELSE @]

\* the table after the update statement of update_job
UpdatedTable(tbl, job_id, update, user_id) ==
  [i \in DOMAIN tbl |->
     IF Matches(tbl[i], job_id, user_id) THEN Patch(tbl[i], update) ELSE tbl[i]]

\* SupabaseService.update_job: [raised, data, table] for store outcome o
update_job(tbl, job_id, update, user_id, o) ==
  IF o = "error"
  THEN [raised |-> TRUE, data |-> <<>>, table |-> tbl]
  ELSE LET t == UpdatedTable(tbl, job_id, update, user_id)
       IN [raised |-> FALSE,
           data |-> Responses(Filter(t, job_id, user_id)),
           table |-> t]

\* SupabaseService.get_job_by_id
get_job_by_id(tbl, job_id, user_id, o) ==
  IF o = "error"
  THEN [raised |-> TRUE, data |-> <<>>]
  ELSE [raised |-> FALSE, data |-> Responses(Filter(tbl, job_id, user_id))]

\* SupabaseService.get_jobs_by_user
get_jobs_by_user(tbl, user_id, o) ==
  IF o = "error"
  THEN [raised |-> TRUE, data |-> <<>>]
  ELSE [raised |-> FALSE, data |-> Responses(OrderDesc(FilterUser(tbl, user_id)))]

\* SupabaseService.get_all_jobs
get_all_jobs_rows(tbl, o) ==
  IF o = "error"
  THEN [raised |-> TRUE, data |-> <<>>]
  ELSE [raised |-> FALSE, data |-> Responses(OrderDesc(tbl))]

\* variant of create_job: a submission equal to a stored one (same owner and
\* name) is answered with the stored row instead of a new insert
create_job_dedup(tbl, job, user_id, now, o) ==
  LET row == NewRow(job, user_id, NextId(tbl), now)
      same == {i \in DOMAIN tbl : tbl[i].user_id = user_id /\ tbl[i].name = job.name}
  IN IF o # "ok" THEN [raised |-> TRUE, data |-> <<>>, table |-> tbl]
     ELSE IF same # {}
     THEN [raised |-> FALSE, data |-> <<JobResponse(tbl[CHOOSE i \in same : TRUE])>>,
           table |-> tbl]
     ELSE [raised |-> FALSE, data |-> <<JobResponse(row)>>, table |-> Append(tbl, row)]

\* variant of create_job: the row is written although the call raises
create_job_partial(tbl, job, user_id, now, o) ==
  LET row == NewRow(job, user_id, NextId(tbl), now)
  IN IF o = "ok"
     THEN [raised |-> FALSE, data |-> <<JobResponse(row)>>, table |-> Append(tbl, row)]
     ELSE [raised |-> TRUE, data |-> <<>>, table |-> Append(tbl, row)]

\* SupabaseService.create_job: [raised, data, table]
create_job(tbl, job, user_id, now, o) ==
  IF o = "ok"
  THEN LET row == NewRow(job, user_id, NextId(tbl), now)
       IN [raised |-> FALSE, data |-> <<JobResponse(row)>>, table |-> Append(tbl, row)]
  ELSE [raised |-> TRUE, data |-> <<>>, table |-> tbl]

\* ------------------------------------------------ app/services/sqs_client.py
\* the message_body send_job_to_queue builds
MessageBody(job_id, job_data) ==
  [job_id |-> job_id, job_data |-> job_data, action |-> "start_training"]

\* SQSService.send_job_to_queue: [success, queue] for send outcome o
send_job_to_queue(q, configured, job_id, job_data, o) ==
  IF ~configured THEN [success |-> TRUE, queue |-> q]
  ELSE IF o = "ok"
  THEN [success |-> TRUE, queue |-> Append(q, MessageBody(job_id, job_data))]
  ELSE [success |-> FALSE, queue |-> q]

\* first element of result.data, if any (result.data[0] / None)
First(data) == IF data = <<>> THEN <<>> ELSE <<Head(data)>>

\* ----------------------------------------------------- app/routers/jobs.py
IdleReq ==
  [pc |-> "idle", user |-> NoUser, job |-> <<>>, created |-> <<>>,
   queue_success |-> FALSE, calls |-> <<>>, code |-> 0, body |-> <<>>]

NoResp ==
  [op |-> "none", user |-> NoUser, job_id |-> NoId, code |-> 0,
   raised |-> FALSE, body |-> <<>>, calls |-> <<>>, update |-> NoUpdate,
   cred |-> NoCredentials]

\* a completed submit_job call has answered and is gone
Retire(r) == IF r.pc = "done" THEN IdleReq ELSE r

\* variant of JobData: the owner is left out of the message
JobData_anonymous(job, user_id) ==
  [name |-> job.name, model_type |-> job.model_type,
   dataset_path |-> job.dataset_path, hyperparameters |-> job.hyperparameters,
   user_id |-> NoUser]

\* job_data built by submit_job for the queue
JobData(job, user_id) ==
  [name |-> job.name, model_type |-> job.model_type,
   dataset_path |-> job.dataset_path, hyperparameters |-> job.hyperparameters,
   user_id |-> user_id]

Init ==
  /\ jobs = <<>>
  /\ queue = <<>>
  /\ is_configured \in BOOLEAN
  /\ clock = 0
  /\ updates = 0
  /\ req = IdleReq
  /\ resp = NoResp

\* POST /api/jobs/submit-job arrives: Depends(get_current_user_id)
SubmitBegin(cred, jwks_ok, nac, job) ==
  /\ req.pc \in {"idle", "done"}
  /\ Len(jobs) < MaxJobs
  /\ LET auth == get_current_user_id(cred, jwks_ok, nac)
     IN req' = IF auth.code # 0
               THEN [IdleReq EXCEPT !.pc = "done", !.code = auth.code]
               ELSE [IdleReq EXCEPT !.pc = "create", !.user = auth.value,
                                    !.job = <<job>>]
  /\ resp' = NoResp
  /\ UNCHANGED <<jobs, queue, is_configured, clock, updates>>

\* submit_job: created_job = await supabase_service.create_job(...)
SubmitCreate(o) ==
  /\ req.pc = "create"
  /\ LET r == create_job(jobs, req.job[1], req.user, clock + 1, o)
     IN /\ jobs' = r.table
        /\ clock' = IF r.raised THEN clock ELSE clock + 1
        /\ req' = IF r.raised
                  THEN [req EXCEPT !.pc = "done", !.code = 500,
                                   !.calls = Append(@, "create_job")]
                  ELSE [req EXCEPT !.pc = "send", !.created = r.data,
                                   !.calls = Append(@, "create_job")]
  /\ resp' = NoResp
  /\ UNCHANGED <<queue, is_configured, updates>>

\* variant of SubmitSend: the created job is returned whatever the send
\* returned
SubmitSend_ignore_result(o) ==
  /\ req.pc = "send"
  /\ LET r == send_job_to_queue(queue, is_configured, req.created[1].id,
                                JobData(req.job[1], req.user), o)
     IN /\ queue' = r.queue
        /\ req' = [req EXCEPT !.pc = "done", !.queue_success = r.success,
                              !.code = 201, !.body = req.created,
                              !.calls = Append(@, "send_job_to_queue")]
  /\ resp' = NoResp
  /\ UNCHANGED <<jobs, is_configured, clock, updates>>

\* submit_job: queue_success = await sqs_service.send_job_to_queue(...);
\* on success the created job is returned
SubmitSend(o) ==
  /\ req.pc = "send"
  /\ LET r == send_job_to_queue(queue, is_configured, req.created[1].id,
                                JobData(req.job[1], req.user), o)
     IN /\ queue' = r.queue
        /\ req' = IF r.success
                  THEN [req EXCEPT !.pc = "done", !.queue_success = TRUE,
                                   !.code = 201, !.body = req.created,
                                   !.calls = Append(@, "send_job_to_queue")]
                  ELSE [req EXCEPT !.pc = "compensate", !.queue_success = FALSE,
                                   !.calls = Append(@, "send_job_to_queue")]
  /\ resp' = NoResp
  /\ UNCHANGED <<jobs, is_configured, clock, updates>>

\* variant of SubmitCompensate: after the compensating update the send is
\* tried again
SubmitCompensate_retry(o) ==
  /\ req.pc = "compensate"
  /\ LET r == update_job(jobs, req.created[1].id, CompensatingUpdate, req.user, o)
     IN /\ jobs' = r.table
        /\ req' = [req EXCEPT !.pc = "send", !.calls = Append(@, "update_job")]
  /\ resp' = NoResp
  /\ UNCHANGED <<queue, is_configured, clock, updates>>

\* submit_job: if not queue_success: update_job(... status="failed" ...),
\* then HTTPException 500; an exception of update_job is caught by the
\* handler's except clause, which answers 500 as well
SubmitCompensate(o) ==
  /\ req.pc = "compensate"
  /\ LET r == update_job(jobs, req.created[1].id, CompensatingUpdate, req.user, o)
     IN /\ jobs' = r.table
        /\ req' = [req EXCEPT !.pc = "done", !.code = 500,
                              !.calls = Append(@, "update_job")]
  /\ resp' = NoResp
  /\ UNCHANGED <<queue, is_configured, clock, updates>>

\* GET /api/jobs/
GetUserJobs(cred, jwks_ok, nac, o) ==
  /\ LET auth == get_current_user_id(cred, jwks_ok, nac)
         r == get_jobs_by_user(jobs, auth.value, o)
     IN resp' = IF auth.code # 0
                THEN [NoResp EXCEPT !.op = "get_user_jobs", !.code = auth.code,
                                    !.cred = cred]
                ELSE [op |-> "get_user_jobs", user |-> auth.value, job_id |-> NoId,
                      code |-> IF r.raised THEN 500 ELSE 200,
                      raised |-> r.raised, body |-> r.data,
                      calls |-> <<"get_jobs_by_user">>, update |-> NoUpdate,
                      cred |-> cred]
  /\ req' = Retire(req)
  /\ UNCHANGED <<jobs, queue, is_configured, clock, updates>>

\* GET /api/jobs/all: no dependency on the caller's credentials
GetAllJobs(cred, o) ==
  /\ LET r == get_all_jobs_rows(jobs, o)
     IN resp' = [op |-> "get_all_jobs", user |-> NoUser, job_id |-> NoId,
                 code |-> IF r.raised THEN 500 ELSE 200,
                 raised |-> r.raised, body |-> r.data,
                 calls |-> <<"get_all_jobs">>, update |-> NoUpdate,
                 cred |-> cred]
  /\ req' = Retire(req)
  /\ UNCHANGED <<jobs, queue, is_configured, clock, updates>>

\* ids a caller may name: those in the table and one that is in no record
JobIds == 1 .. (Len(jobs) + 1)
JobIdInputs == 1 .. (MaxJobs + 1)

\* get_job's answer once the caller is resolved: 404 when the store has no
\* matching row, 500 when the store raises
get_job(tbl, job_id, user_id, o) ==
  LET r == get_job_by_id(tbl, job_id, user_id, o)
  IN [code |-> IF r.raised THEN 500 ELSE IF r.data = <<>> THEN 404 ELSE 200,
      raised |-> r.raised, body |-> First(r.data)]

\* GET /api/jobs/{job_id}
GetJob(cred, jwks_ok, nac, job_id, o) ==
  /\ job_id \in JobIds
  /\ LET auth == get_current_user_id(cred, jwks_ok, nac)
         r == get_job(jobs, job_id, auth.value, o)
     IN resp' = IF auth.code # 0
                THEN [NoResp EXCEPT !.op = "get_job", !.code = auth.code,
                                    !.job_id = job_id, !.cred = cred]
                ELSE [op |-> "get_job", user |-> auth.value, job_id |-> job_id,
                      code |-> r.code, raised |-> r.raised, body |-> r.body,
                      calls |-> <<"get_job_by_id">>, update |-> NoUpdate,
                      cred |-> cred]
  /\ req' = Retire(req)
  /\ UNCHANGED <<jobs, queue, is_configured, clock, updates>>

\* SupabaseService.update_job called by the execution backend or an operator
UpdateJob(job_id, update, user_id, o) ==
  /\ updates < MaxUpdates
  /\ job_id \in JobIds
  /\ LET r == update_job(jobs, job_id, update, user_id, o)
     IN /\ jobs' = r.table
        /\ resp' = [op |-> "update_job", user |-> user_id, job_id |-> job_id,
                    code |-> 0, raised |-> r.raised, body |-> First(r.data),
                    calls |-> <<"update_job">>, update |-> update,
                    cred |-> NoCredentials]
  /\ updates' = updates + 1
  /\ req' = Retire(req)
  /\ UNCHANGED <<queue, is_configured, clock>>


\* submit_job, step by step
Submit ==
  \/ \E cred \in Credentials, jwks_ok \in BOOLEAN, nac \in NotAuthenticatedCodes,
        job \in JobCreate : SubmitBegin(cred, jwks_ok, nac, job)
  \/ \E o \in InsertOutcomes : SubmitCreate(o)
  \/ \E o \in SendOutcomes : SubmitSend(o)
  \/ \E o \in StoreOutcomes : SubmitCompensate(o)

\* the operations that write the store and the queue
Next ==
  \/ Submit
  \/ \E job_id \in JobIdInputs, update \in JobUpdate, user_id \in Users \cup {NoUser},
        o \in StoreOutcomes : UpdateJob(job_id, update, user_id, o)

Spec == Init /\ [][Next]_vars

\* submissions and the read endpoints
NextRead ==
  \/ Submit
  \/ \E cred \in Credentials, jwks_ok \in BOOLEAN, nac \in NotAuthenticatedCodes,
        o \in StoreOutcomes : GetUserJobs(cred, jwks_ok, nac, o)
  \/ \E cred \in Credentials, o \in StoreOutcomes : GetAllJobs(cred, o)
  \/ \E cred \in Credentials, jwks_ok \in BOOLEAN, nac \in NotAuthenticatedCodes,
        job_id \in JobIdInputs, o \in StoreOutcomes : GetJob(cred, jwks_ok, nac, job_id, o)

SpecRead == Init /\ [][NextRead]_vars

\* callers whose credentials resolve
ValidTokens == {c \in Tokens : get_user_id(c, TRUE).code = 0}

\* submissions, the backend's updates and fetches by id of resolved callers
NextFetch ==
  \/ /\ Len(jobs) < MaxFetchJobs
     /\ \E cred \in Credentials, jwks_ok \in BOOLEAN, nac \in NotAuthenticatedCodes,
           job \in JobCreate : SubmitBegin(cred, jwks_ok, nac, job)
  \/ \E o \in InsertOutcomes : SubmitCreate(o)
  \/ \E o \in SendOutcomes : SubmitSend(o)
  \/ \E o \in StoreOutcomes : SubmitCompensate(o)
  \/ \E job_id \in JobIdInputs, update \in JobUpdate :
        UpdateJob(job_id, update, NoUser, "ok")
  \/ \E cred \in ValidTokens, nac \in NotAuthenticatedCodes,
        job_id \in JobIdInputs, o \in StoreOutcomes : GetJob(cred, TRUE, nac, job_id, o)

SpecFetch == Init /\ [][NextFetch]_vars

\* ------------------------------------------------------------ properties

\* C1: whenever a submit_job call completes after its insert succeeded and
\* its queue send failed, the created Job is stored with status failed and a
\* non-empty error_message, and the caller gets an error, not the Job;
\* whatever the compensating update_job call did.
C1_DispatchFailureLeavesFailedJob ==
  (req.pc = "done" /\ req.created # <<>> /\ ~req.queue_success) =>
    /\ req.code >= 400
    /\ req.body = <<>>
    /\ \E i \in DOMAIN jobs : jobs[i].id = req.created[1].id
    /\ \A i \in DOMAIN jobs : jobs[i].id = req.created[1].id =>
         /\ jobs[i].status = "failed"
         /\ jobs[i].error_message \notin {None, ""}

\* C2: when a submit_job call has completed, the Job it created is pending
\* only if a message carrying its id is on the Work Queue, also when the
\* queue client is not configured.
C2_PendingOnlyIfEnqueued ==
  (req.pc = "done" /\ req.created # <<>>) =>
    \A i \in DOMAIN jobs :
      (jobs[i].id = req.created[1].id /\ jobs[i].status = "pending") =>
        \E k \in DOMAIN queue : queue[k].job_id = jobs[i].id

\* C3: a submit_job call whose store insert fails leaves the table and the
\* queue as they were, never calls send_job_to_queue, and answers an error.
C3_StoreFailureCreatesNothing ==
  [][(req.pc = "create" /\ req'.pc # "create" /\ req'.created = <<>>) =>
       /\ jobs' = jobs
       /\ queue' = queue
       /\ req'.pc = "done"
       /\ req'.calls = <<"create_job">>
       /\ req'.code >= 400
       /\ req'.body = <<>>]_vars

C3_Witness ==
  /\ req.pc = "done"
  /\ req.calls = <<"create_job">>
  /\ req.created = <<>>
  /\ req.code = 500
  /\ req.user \in Users

\* C4: a submit_job call whose insert and send both succeed returns the Job
\* with status pending and a non-empty id, and writes nothing to the store
\* after the insert: the send-and-return step leaves the table unchanged, and
\* unless another caller's update_job ran, the stored record is still
\* pending with no error_message.
C4_SuccessReturnsPendingUnchanged ==
  [][(req.pc = "send" /\ req'.queue_success) =>
       /\ req'.pc = "done"
       /\ req'.code = 201
       /\ Len(req'.body) = 1
       /\ req'.body[1].status = "pending"
       /\ req'.body[1].id # NoId
       /\ req'.calls = <<"create_job", "send_job_to_queue">>
       /\ jobs' = jobs
       /\ \E i \in DOMAIN jobs' : jobs'[i].id = req'.body[1].id
       /\ updates = 0 =>
            \A i \in DOMAIN jobs' : jobs'[i].id = req'.body[1].id =>
              /\ jobs'[i].status = "pending"
              /\ jobs'[i].error_message = None]_vars

C4_Witness ==
  /\ req.pc = "done"
  /\ req.queue_success
  /\ req.code = 201
  /\ is_configured
  /\ \E k \in DOMAIN queue : queue[k].job_id = req.body[1].id
  /\ \E i \in DOMAIN jobs : jobs[i].id = req.body[1].id /\ jobs[i].status = "pending"

\* C5: get_job by a principal other than the owner answers NotFound with
\* none of the Job's data, and answers exactly what it answers for an id
\* that is in no record.
C5_ForeignJobIsNotFound ==
  (/\ resp.op = "get_job"
   /\ resp.user # NoUser
   /\ \E i \in DOMAIN jobs : jobs[i].id = resp.job_id /\ jobs[i].user_id # resp.user) =>
    LET absent == get_job(jobs, Len(jobs) + 1, resp.user,
                          IF resp.raised THEN "error" ELSE "ok")
    IN /\ resp.body = <<>>
       /\ ~resp.raised => resp.code = 404
       /\ resp.code = absent.code
       /\ resp.body = absent.body
       /\ \A i \in DOMAIN jobs : jobs[i].id # Len(jobs) + 1

C5_Witness ==
  /\ resp.op = "get_job"
  /\ resp.code = 404
  /\ resp.user = "U2"
  /\ \E i \in DOMAIN jobs : jobs[i].id = resp.job_id /\ jobs[i].user_id = "U1"

\* C6: get_all_jobs hands no caller the Jobs of other owners unless the
\* caller passed a privileged authorization check (the router performs
\* none, so no caller is privileged).
C6_UnscopedListingIsGated ==
  resp.op = "get_all_jobs" =>
    \A k \in DOMAIN resp.body : \A i \in DOMAIN jobs :
      jobs[i].id = resp.body[k].id =>
        jobs[i].user_id = get_user_id(resp.cred, TRUE).value

\* C7: get_user_jobs called by U returns exactly the stored Jobs whose owner
\* is U, each once.
C7_OwnerListingIsExact ==
  (resp.op = "get_user_jobs" /\ resp.code = 200) =>
    /\ resp.user \in Users
    /\ {resp.body[k] : k \in DOMAIN resp.body} =
         {JobResponse(jobs[i]) : i \in {j \in DOMAIN jobs : jobs[j].user_id = resp.user}}
    /\ Len(resp.body) = Cardinality({j \in DOMAIN jobs : jobs[j].user_id = resp.user})

C7_Witness ==
  /\ resp.op = "get_user_jobs"
  /\ resp.code = 200
  /\ resp.body # <<>>
  /\ \E i \in DOMAIN jobs : jobs[i].user_id # resp.user

\* C8: once a Job's stored status is completed or failed it never becomes
\* pending or training again.
C8_TerminalStaysTerminal ==
  [][\A i \in DOMAIN jobs :
       jobs[i].status \in {"completed", "failed"} =>
         jobs'[i].status \notin {"pending", "training"}]_vars

\* C9: the id and owner of every stored Job stay what they were at creation:
\* no step changes them.
C9_IdAndOwnerImmutable ==
  [][\A i \in DOMAIN jobs :
       /\ i \in DOMAIN jobs'
       /\ jobs'[i].id = jobs[i].id
       /\ jobs'[i].user_id = jobs[i].user_id]_vars

C9_Witness ==
  /\ resp.op = "update_job"
  /\ resp.body # <<>>
  /\ resp.update.status = "training"
  /\ \E i \in DOMAIN jobs :
       jobs[i].id = resp.job_id /\ jobs[i].status = "training" /\ jobs[i].user_id = "U1"

\* C10: update_job writes the fields present in the update into the matching
\* row and leaves every other field of every row as it was; an update with
\* only training_logs leaves status, error_message and modal_call_id alone.
C10_UpdateIsMerge ==
  [][LET Frame(old, new, u) ==
           /\ u.status = None => new.status = old.status
           /\ u.modal_call_id = None => new.modal_call_id = old.modal_call_id
           /\ u.error_message = None => new.error_message = old.error_message
           /\ u.training_logs = None => new.training_logs = old.training_logs
           /\ new.id = old.id /\ new.user_id = old.user_id
           /\ new.name = old.name /\ new.model_type = old.model_type
           /\ new.dataset_path = old.dataset_path
           /\ new.hyperparameters = old.hyperparameters
           /\ new.created_at = old.created_at
         Applied(new, u) ==
           /\ u.status # None => new.status = u.status
           /\ u.modal_call_id # None => new.modal_call_id = u.modal_call_id
           /\ u.error_message # None => new.error_message = u.error_message
           /\ u.training_logs # None => new.training_logs = u.training_logs
     IN \A i \in DOMAIN jobs :
          /\ (resp'.op = "update_job" /\ updates' = updates + 1) =>
               /\ Frame(jobs[i], jobs'[i], resp'.update)
               /\ (~resp'.raised /\ Matches(jobs[i], resp'.job_id, resp'.user)) =>
                    Applied(jobs'[i], resp'.update)
          /\ (req.pc = "compensate" /\ req'.pc = "done") =>
               Frame(jobs[i], jobs'[i], CompensatingUpdate)]_vars

C10_Witness ==
  /\ resp.op = "update_job"
  /\ resp.update = [NoUpdate EXCEPT !.training_logs = "log"]
  /\ resp.body # <<>>
  /\ resp.body[1].status = "failed"
  /\ \E i \in DOMAIN jobs :
       /\ jobs[i].id = resp.job_id
       /\ jobs[i].training_logs = "log"
       /\ jobs[i].status = "failed"
       /\ jobs[i].error_message = "Failed to queue job"

\* C11: when the caller's credential does not resolve (absent, no usable
\* key id, key fetch failure, bad signature, expired, no sub), get_user_jobs,
\* get_job and submit_job make no store or queue call, leave store and queue
\* as they are, and answer an authentication failure with no body.
C11_AuthFailureRunsNoQuery ==
  [][LET Fails(cred, jwks_ok) == ~cred.present \/ get_user_id(cred, jwks_ok).code # 0
         Refused(r) == r.calls = <<>> /\ r.body = <<>> /\ r.code \in {401, 403}
     IN \A jwks_ok \in BOOLEAN, nac \in NotAuthenticatedCodes :
          /\ (resp'.op = "get_user_jobs" /\ Fails(resp'.cred, jwks_ok)) =>
               \A o \in StoreOutcomes :
                 GetUserJobs(resp'.cred, jwks_ok, nac, o) => Refused(resp')
          /\ (resp'.op = "get_job" /\ Fails(resp'.cred, jwks_ok)) =>
               \A o \in StoreOutcomes :
                 GetJob(resp'.cred, jwks_ok, nac, resp'.job_id, o) => Refused(resp')
          /\ (req.pc \in {"idle", "done"} /\ req'.pc \in {"create", "done"}
                /\ resp' = NoResp) =>
               \A cred \in Credentials, job \in JobCreate :
                 (Fails(cred, jwks_ok) /\ SubmitBegin(cred, jwks_ok, nac, job)) =>
                   /\ req'.pc = "done" /\ Refused(req')
                   /\ jobs' = jobs /\ queue' = queue]_vars

C11_Witness ==
  /\ resp.op = "get_user_jobs"
  /\ resp.cred.present /\ resp.cred.expired /\ resp.cred.sub = "U2"
  /\ resp.code = 401
  /\ resp.calls = <<>>
  /\ \E i \in DOMAIN jobs : jobs[i].user_id = "U2"

\* C12: every submit_job call whose insert succeeds adds exactly one row,
\* with an id no stored row has, and leaves the stored rows as they are, also
\* when owner and fields equal those of an earlier submission; the table
\* holds as many rows as inserts have succeeded.
C12_EverySubmissionAddsOneJob ==
  [][(req.pc = "create" /\ req'.created # <<>>) =>
       /\ Len(jobs') = Len(jobs) + 1
       /\ \A i \in DOMAIN jobs : jobs'[i] = jobs[i]
       /\ \A i \in DOMAIN jobs : jobs[i].id # jobs'[Len(jobs')].id
       /\ jobs'[Len(jobs')].id = req'.created[1].id
       /\ jobs'[Len(jobs')].id # NoId
       /\ jobs'[Len(jobs')].user_id = req.user
       /\ jobs'[Len(jobs')].name = req.job[1].name
       /\ clock' = clock + 1
       /\ Len(jobs') = clock']_vars

C12_Witness ==
  /\ Len(jobs) = 2
  /\ jobs[1].id # jobs[2].id
  /\ jobs[1].user_id = jobs[2].user_id
  /\ jobs[1].name = jobs[2].name
  /\ jobs[1].model_type = jobs[2].model_type
  /\ req.pc = "send"
  /\ req.created[1].id = jobs[2].id

\* C13: get_user_jobs and get_all_jobs list newest first: of any two Jobs in
\* a returned list the one created later comes earlier.
C13_ListingsNewestFirst ==
  (resp.op \in {"get_user_jobs", "get_all_jobs"} /\ resp.code = 200) =>
    \A k, l \in DOMAIN resp.body :
      resp.body[k].created_at > resp.body[l].created_at => k < l

C13_Witness ==
  /\ resp.op = "get_user_jobs"
  /\ resp.code = 200
  /\ Len(resp.body) = 2
  /\ resp.body[1].created_at > resp.body[2].created_at
  /\ resp.body[1].id = jobs[2].id

\* C14: update_job with an id no row has, or with an owner filter that hides
\* the row, returns no Job and changes no stored record.
C14_UpdateOfInvisibleJobIsNotFound ==
  [][(/\ resp'.op = "update_job"
      /\ updates' = updates + 1
      /\ \A i \in DOMAIN jobs :
           \/ jobs[i].id # resp'.job_id
           \/ (resp'.user # NoUser /\ jobs[i].user_id # resp'.user)) =>
       /\ resp'.body = <<>>
       /\ jobs' = jobs]_vars

C14_Witness ==
  /\ resp.op = "update_job"
  /\ ~resp.raised
  /\ resp.body = <<>>
  /\ resp.user = "U2"
  /\ resp.update.status = "completed"
  /\ \E i \in DOMAIN jobs :
       jobs[i].id = resp.job_id /\ jobs[i].user_id = "U1" /\ jobs[i].status = "pending"

\* C15: a fetch of a Job by its owner returns the stored values as last
\* written: the row of that id and owner; right after an update_job on it,
\* the fields the update set and, for the others, what the update returned;
\* right after the submission, with no update yet, status pending. What an
\* update returns are the values it set and the stored values of the fields
\* it did not set (the dispatch reference survives {status: completed}).
C15_FetchReturnsLastWritten ==
  [][/\ (resp'.op = "update_job" /\ updates' = updates + 1 /\ resp'.body # <<>>) =>
          \E i \in DOMAIN jobs :
            LET u == resp'.update
                b == resp'.body[1]
            IN /\ jobs[i].id = resp'.job_id
               /\ b.status = IF u.status # None THEN u.status ELSE jobs[i].status
               /\ b.modal_call_id = IF u.modal_call_id # None THEN u.modal_call_id
                                    ELSE jobs[i].modal_call_id
               /\ b.error_message = IF u.error_message # None THEN u.error_message
                                    ELSE jobs[i].error_message
     /\ (resp'.op = "get_job" /\ ~resp'.raised) =>
          /\ (\E i \in DOMAIN jobs' :
                jobs'[i].id = resp'.job_id /\ jobs'[i].user_id = resp'.user)
               => resp'.code = 200
          /\ resp'.code = 200 =>
               /\ Len(resp'.body) = 1
               /\ \E i \in DOMAIN jobs' :
                    /\ jobs'[i].id = resp'.job_id
                    /\ jobs'[i].user_id = resp'.user
                    /\ resp'.body[1] = JobResponse(jobs'[i])
               /\ (/\ resp.op = "update_job" /\ resp.body # <<>>
                   /\ resp.job_id = resp'.job_id) =>
                    LET u == resp.update
                        b == resp'.body[1]
                    IN /\ b = resp.body[1]
                       /\ u.status # None => b.status = u.status
                       /\ u.modal_call_id # None => b.modal_call_id = u.modal_call_id
                       /\ u.error_message # None => b.error_message = u.error_message
               /\ (/\ req.pc = "done" /\ req.code = 201 /\ updates = 0
                   /\ req.body[1].id = resp'.job_id) =>
                    /\ resp'.user = req.user
                    /\ resp'.body[1].status = "pending"
                    /\ resp'.body[1] = req.body[1]]_vars

C15_Witness ==
  /\ resp.op = "get_job"
  /\ resp.code = 200
  /\ resp.user = "U1"
  /\ updates = 2
  /\ resp.body[1].status = "completed"
  /\ resp.body[1].modal_call_id = "bk-123"

\* C16: a stored Job has a non-empty error_message only if its status is
\* failed.
C16_ErrorMessageOnlyWhenFailed ==
  \A i \in DOMAIN jobs :
    jobs[i].error_message \notin {None, ""} => jobs[i].status = "failed"

\* C17: every message on the Work Queue carries the id of a stored Job and
\* the owner, name, model_type, dataset_path and hyperparameters of that Job;
\* a message is only ever sent by a submit_job call after its own insert
\* returned, for the row that insert stored.
C17_MessagesCarryPersistedJob ==
  [][/\ \A k \in DOMAIN queue' : \E i \in DOMAIN jobs' :
          /\ jobs'[i].id = queue'[k].job_id
          /\ queue'[k].job_data =
               [name |-> jobs'[i].name, model_type |-> jobs'[i].model_type,
                dataset_path |-> jobs'[i].dataset_path,
                hyperparameters |-> jobs'[i].hyperparameters,
                user_id |-> jobs'[i].user_id]
     /\ queue' # queue =>
          /\ Len(queue') = Len(queue) + 1
          /\ \A k \in DOMAIN queue : queue'[k] = queue[k]
          /\ jobs' = jobs
          /\ req.pc = "send"
          /\ req.calls = <<"create_job">>
          /\ req.created # <<>>
          /\ queue'[Len(queue')].job_id = req.created[1].id
          /\ \E i \in DOMAIN jobs : jobs[i].id = req.created[1].id
          /\ queue'[Len(queue')].job_data.user_id = req.user
          /\ queue'[Len(queue')].job_data.name = req.job[1].name
          /\ queue'[Len(queue')].job_data.model_type = req.job[1].model_type
          /\ queue'[Len(queue')].job_data.dataset_path = req.job[1].dataset_path
          /\ queue'[Len(queue')].job_data.hyperparameters = req.job[1].hyperparameters
     /\ jobs' # jobs /\ Len(jobs') > Len(jobs) => queue' = queue]_vars

C17_Witness ==
  /\ Len(queue) = 2
  /\ queue[1].job_id # queue[2].job_id
  /\ queue[1].job_data.user_id = "U1"
  /\ queue[2].job_data.user_id = "U2"
  /\ \E i \in DOMAIN jobs : jobs[i].id = queue[2].job_id /\ jobs[i].user_id = "U2"

\* C18: a submit_job call makes at most one create_job, one
\* send_job_to_queue and one update_job call, in that order, each step moving
\* it strictly towards its response; a failed send is followed only by the
\* compensating update and the response, never by another send; and while no
\* submit_job call is in flight, nothing but another caller's update_job
\* changes the store or the queue.
C18_SubmitRunsEachCallOnce ==
  [][LET Rank(p) == CASE p = "create" -> 1 [] p = "send" -> 2
                      [] p = "compensate" -> 3 [] p = "done" -> 4 [] OTHER -> 0
         Count(calls, c) == Cardinality({k \in DOMAIN calls : calls[k] = c})
     IN /\ (req.pc \in {"create", "send", "compensate"} /\ req' # req) =>
             /\ Rank(req'.pc) > Rank(req.pc)
             /\ Len(req'.calls) = Len(req.calls) + 1
             /\ req'.user = req.user
        /\ \A c \in {"create_job", "send_job_to_queue", "update_job"} :
             Count(req'.calls, c) <= 1
        /\ \A k \in DOMAIN req'.calls :
             /\ req'.calls[k] = "create_job" => k = 1
             /\ req'.calls[k] = "send_job_to_queue" => k = 2
             /\ req'.calls[k] = "update_job" => k = 3
        /\ (req.pc = "compensate" /\ req' # req) => req'.pc = "done"
        /\ req'.pc = "done" => req'.code \in {201, 401, 403, 500}
        /\ (req.pc \in {"idle", "done"} /\ updates' = updates) =>
             jobs' = jobs /\ queue' = queue]_vars

C18_Witness ==
  /\ req.pc = "done"
  /\ req.calls = <<"create_job", "send_job_to_queue", "update_job">>
  /\ req.code = 500
  /\ queue = <<>>
  /\ \E i \in DOMAIN jobs : jobs[i].id = req.created[1].id /\ jobs[i].status = "failed"

\* C19: every step that modifies a stored Job (update_job, the compensating
\* update included) sets its updated_at to a later value and keeps its
\* created_at.
C19_UpdateRefreshesUpdatedAt ==
  [][\A i \in DOMAIN jobs :
       jobs'[i] # jobs[i] =>
         /\ jobs'[i].updated_at > jobs[i].updated_at
         /\ jobs'[i].created_at = jobs[i].created_at]_vars

\* C20: two update_job calls on the same Job, applied by the store one after
\* the other in either order, leave a field-wise merge: a field the later
\* one set holds its value, a field only the earlier one set holds the
\* earlier one's value, a field neither set is as it was.
C20_ConcurrentUpdatesMerge ==
  [][(/\ resp.op = "update_job" /\ ~resp.raised /\ resp.body # <<>>
      /\ resp'.op = "update_job" /\ updates' = updates + 1
      /\ ~resp'.raised /\ resp'.body # <<>>
      /\ resp'.job_id = resp.job_id) =>
       \A i \in DOMAIN jobs :
         jobs[i].id = resp.job_id =>
           \A f \in UpdateFields :
             jobs'[i][f] = IF resp'.update[f] # None THEN resp'.update[f]
                           ELSE IF resp.update[f] # None THEN resp.update[f]
                           ELSE jobs[i][f]]_vars

C20_Witness ==
  /\ resp.op = "update_job"
  /\ updates = 2
  /\ resp.update = [NoUpdate EXCEPT !.status = "failed", !.error_message = "boom"]
  /\ resp.body # <<>>
  /\ \E i \in DOMAIN jobs :
       /\ jobs[i].id = resp.job_id
       /\ jobs[i].status = "failed"
       /\ jobs[i].modal_call_id = "bk-123"
       /\ jobs[i].error_message = "boom"
       /\ jobs[i].training_logs = None

\* C21: a submit_job call answers 201 with the created Job only in the step
\* where send_job_to_queue returned success for that Job; when the send
\* returned failure the call goes on to the compensating update and answers
\* 500 without a Job whether that update succeeded or raised; the
\* compensating update is issued only after a failed send, and it changes
\* only the row this call inserted, which belongs to the submitting owner.
C21_SuccessOnlyIfSendSucceeded ==
  [][LET Sent(o) == send_job_to_queue(queue, is_configured, req.created[1].id,
                                       JobData(req.job[1], req.user), o)
     IN /\ (req'.code = 201 /\ req' # req) =>
             /\ req.pc = "send"
             /\ req'.body = req.created
             /\ req'.calls = <<"create_job", "send_job_to_queue">>
             /\ \E o \in SendOutcomes : Sent(o).success /\ queue' = Sent(o).queue
             /\ jobs' = jobs
        /\ req.pc = "send" =>
             \A o \in SendOutcomes :
               (SubmitSend(o) /\ ~Sent(o).success) =>
                 /\ req'.pc = "compensate"
                 /\ req'.code = 0
                 /\ req'.body = <<>>
        /\ (req.pc = "create" /\ req'.pc = "send") =>
             /\ Len(jobs') = Len(jobs) + 1
             /\ req'.created[1].id = jobs'[Len(jobs')].id
             /\ jobs'[Len(jobs')].user_id = req.user
        /\ (req.pc = "compensate" /\ req' # req) =>
             /\ ~req.queue_success
             /\ req.calls = <<"create_job", "send_job_to_queue">>
             /\ req'.calls = Append(req.calls, "update_job")
             /\ req'.pc = "done"
             /\ req'.code = 500
             /\ req'.body = <<>>
             /\ queue' = queue
             /\ \E o \in StoreOutcomes :
                  jobs' = update_job(jobs, req.created[1].id, CompensatingUpdate,
                                     req.user, o).table
             /\ \A i \in DOMAIN jobs :
                  jobs'[i] # jobs[i] =>
                    /\ jobs[i].id = req.created[1].id
                    /\ jobs[i].user_id = req.user
                    /\ jobs'[i] = Patch(jobs[i], CompensatingUpdate)
        /\ ("update_job" \in {req'.calls[k] : k \in DOMAIN req'.calls}) =>
             /\ ~req'.queue_success
             /\ req'.code = 500
             /\ req'.body = <<>>]_vars

\* a call whose send failed and whose compensating update raised: the Job
\* is still pending and the caller has the 500
C21_Witness ==
  /\ req.pc = "done"
  /\ req.code = 500
  /\ req.body = <<>>
  /\ ~req.queue_success
  /\ req.calls = <<"create_job", "send_job_to_queue", "update_job">>
  /\ updates = 0
  /\ \E i \in DOMAIN jobs :
       /\ jobs[i].id = req.created[1].id
       /\ jobs[i].user_id = req.user
       /\ jobs[i].status = "pending"

====
